---- MODULE Spec2Model ----
(***************************************************************************)
(* The reply-state engine of app.py: BotState (reply pool cache, per-sender *)
(* cursors, the table lock), the threads that use it (one thread per        *)
(* inbound message, the unlocked management endpoints, the maintenance      *)
(* thread) and the reply.txt file they read and seed.                       *)
(*                                                                          *)
(* A string is a sequence of symbols; " " and "\t" are the whitespace       *)
(* symbols str.strip() removes.  A file is a sequence of raw lines.         *)
(***************************************************************************)
EXTENDS Integers, Sequences, FiniteSets, TLC

\* ------------------------------------------------------------------ bounds
\* Spec: a message thread and a management request racing on the reply pool
MaxMessages == 1   \* messages handled (threads started by handle_message_event)
MaxRequests == 1   \* requests served by the management endpoints
MaxEdits == 1      \* changes an operator or the file system makes to reply.txt
\* SpecLoad: successive loads under file changes, file faults and the clock
MaxLoads == 3      \* requests served by the management endpoints
MaxChanges == 2    \* changes an operator or the file system makes to reply.txt
MaxTicks == 2      \* advances of the wall clock
\* SpecRotation: the cursors over a fixed pool
MaxCalls == 4      \* messages handled
\* SpecSweep: the cursors under the maintenance thread
MaxSweepCalls == 2 \* messages handled
MaxSweepTicks == 3 \* advances of the wall clock
StartTime == 1000  \* time.time() when the process starts
\* SpecDispatch: webhook events, their message threads and the sends
MaxEvents == 2     \* webhook POSTs received
\* SpecReload: forced reloads one after the other, reply.txt left alone
MaxReloads == 2    \* POST /reload_replies requests served
\* SpecJanitor: the maintenance thread over unbounded time
MaxJanitorCalls == 2 \* messages handled
\* SpecResize: the cursors over a pool that changes size
MaxResizeCalls == 2  \* messages handled
MaxResizeLoads == 1  \* requests served by the management endpoints
MaxResizeEdits == 1  \* changes an operator or the file system makes to reply.txt
\* SpecTruncate: replies around the length limit of a message
MaxLongMessages == 1 \* webhook POSTs received

\* ------------------------------------------------------- program constants
StalenessWindow == 30
InactiveThreshold == 3600
MaintenanceInterval == 300
MessageLimit == 2000
TruncatedPrefix == 1997

\* ------------------------------------------------------------- thread ids
Workers == {"w1", "w2"}
Managers == {"m1"}
Janitor == "j"
Handler == "h"
Threads == Workers \cup Managers \cup {Janitor, Handler}
Senders == Workers \cup {Handler}
Loaders == Workers \cup Managers
Free == "free"

Users == {"u1", "u2"}
NoUser == "none"

\* ---------------------------------------------------------------- strings
IsSpace(c) == c \in {" ", "\t"}

RECURSIVE LStrip(_)
LStrip(s) ==
    IF s = <<>> THEN s
    ELSE IF IsSpace(Head(s)) THEN LStrip(Tail(s)) ELSE s

RECURSIVE RStrip(_)
RStrip(s) ==
    IF s = <<>> THEN s
    ELSE IF IsSpace(s[Len(s)]) THEN RStrip(SubSeq(s, 1, Len(s) - 1)) ELSE s

Strip(s) == RStrip(LStrip(s))

NonBlank(line) == Strip(line) # <<>>

RECURSIVE ReadLines(_)
ReadLines(lines) ==
    IF lines = <<>> THEN <<>>
    ELSE IF NonBlank(Head(lines))
         THEN <<Strip(Head(lines))>> \o ReadLines(Tail(lines))
         ELSE ReadLines(Tail(lines))

DefaultReplies ==
    << <<"Hello!", " ", "soon!">>,
       <<"Thanks", " ", "today?">>,
       <<"We", " ", "shortly.">>,
       <<"Hello", " ", "you?">>,
       <<"Thanks", " ", "inquiry.">>,
       <<"Hi!", " ", "possible.">>,
       <<"Hello!", " ", "assist", " ", "you.">>,
       <<"We", " ", "today!">>,
       <<"Thanks", " ", "help.">>,
       <<"Hello!", " ", "assist", " ", "you?">> >>

ErrorReplies == << <<"Thanks", " ", "soon.">> >>

EmptyPoolReply == <<"Thanks", " ", "message!">>

JoinLines(list) == list

\* lines 325 and 339: the fixed texts the webhook thread sends itself
AttachmentReply == <<"Thanks", " ", "sharing!">>
WelcomeReply == <<"Welcome!", " ", "today?">>

\* line 166: the three characters "..."
Marker == <<".", ".", ".">>

\* a text of n characters, no two neighbours alike
Letters == <<"a", "b", "c", "d", "e", "f", "g">>
LongLine(n) == [i \in 1..n |-> Letters[(i % 7) + 1]]
TextLengths == {1, 1996, 1997, 1998, 1999, 2000, 2001, 2002, 2003, 2500}

\* ------------------------------------------------ contents of reply.txt
PoolABC == << <<" ", "A">>, <<>>, <<"B", " ", "b", "\t">>, <<" ", "\t">>, <<"C">> >>
PoolAB == << <<" ", "A">>, <<>>, <<"B", " ", "b", "\t">>, <<" ", "\t">> >>
PoolA == << <<"A", " ">> >>
PoolBlank == << <<" ">>, <<>> >>
StoreChoices == {PoolABC, PoolA, PoolBlank}
RotationPools == {PoolABC, PoolAB, PoolA}

\* ------------------------------------------------------------------ state
VARIABLES
    now, ticks_left,
    store, readable, writable, edits_left,
    replies_cache, last_reply_reload, reply_index, user_states, lock,
    pc, user_id, current_time, force_reload, file_lines, load_path, replies,
    tmp_index, reply, inactive_users, cl_time, cl_before, wake_at,
    calls_left, loads_left, consumed, returned, loaded, swept,
    disk_full, last_forced,
    token, outbox, sm_text, sm_outcome, success, attempts,
    mode, pm_steps, resolved, wh_event, wh_status, events_left

envVars == <<now, ticks_left, store, readable, writable, edits_left>>
botVars == <<replies_cache, last_reply_reload, reply_index, user_states, lock>>
loadLocals == <<current_time, force_reload, file_lines, load_path, replies>>
workerLocals == <<user_id, tmp_index, reply>>
janitorLocals == <<inactive_users, cl_time, cl_before, wake_at>>
histVars == <<calls_left, loads_left, consumed, returned, loaded, swept>>
sendLocals == <<sm_text, sm_outcome, success, attempts>>
messageLocals == <<mode, pm_steps, resolved>>
hookVars == <<wh_event, wh_status, events_left>>
dispatchVars == <<token, outbox, sendLocals, messageLocals, hookVars>>
sideVars == <<disk_full, last_forced, dispatchVars>>
vars == <<envVars, botVars, pc, loadLocals, workerLocals, janitorLocals, histVars,
          sideVars>>

NoEntries == [u \in {} |-> [reply_index |-> 0, last_active |-> 0]]

\* the lists two successive forced loads returned are compared through the
\* list the last POST /reload_replies got, unless reply.txt has been changed
\* from outside since
NoForced == [valid |-> FALSE, list |-> <<>>]

NoCursor == 0 - 1

NoEvent == [kind |-> "none", sender |-> NoUser]

InitBot ==
    /\ replies_cache = <<>>
    /\ last_reply_reload = 0
    /\ reply_index = 0
    /\ user_states = NoEntries
    /\ lock = Free

InitThreads ==
    /\ pc = [t \in Threads |-> "idle"]
    /\ user_id = [t \in Workers |-> NoUser]
    /\ current_time = [t \in Loaders |-> 0]
    /\ force_reload = [t \in Loaders |-> FALSE]
    /\ file_lines = [t \in Loaders |-> <<>>]
    /\ load_path = [t \in Loaders |-> "none"]
    /\ replies = [t \in Loaders |-> <<>>]
    /\ tmp_index = [t \in Workers |-> 0]
    /\ reply = [t \in Workers |-> <<>>]
    /\ inactive_users = {}
    /\ cl_time = 0
    /\ cl_before = NoEntries
    /\ wake_at = StartTime + MaintenanceInterval
    /\ consumed = [u \in Users |-> <<>>]
    /\ returned = [u \in Users |-> <<>>]
    /\ loaded = FALSE
    /\ swept = {}
    /\ last_forced = NoForced
    /\ outbox = <<>>
    /\ sm_text = [t \in Senders |-> <<>>]
    /\ sm_outcome = [t \in Senders |-> "none"]
    /\ success = [t \in Senders |-> "none"]
    /\ attempts = [t \in Senders |-> 0]
    /\ mode = [t \in Workers |-> "call"]
    /\ pm_steps = [t \in Workers |-> <<>>]
    /\ resolved = [t \in Workers |-> NoCursor]
    /\ wh_event = NoEvent
    /\ wh_status = "none"

Absent == [exists |-> FALSE, lines |-> <<>>]
Present(c) == [exists |-> TRUE, lines |-> c]

Budgets(messages, requests, clock, changes) ==
    /\ calls_left = messages
    /\ loads_left = requests
    /\ ticks_left = clock
    /\ edits_left = changes

\* no webhook traffic; PAGE_ACCESS_TOKEN is set
NoWebhook ==
    /\ token = TRUE
    /\ events_left = 0

\* the process starts with reply.txt in any state
Init ==
    /\ now = StartTime
    /\ store \in {Present(c) : c \in StoreChoices} \cup {Absent}
    /\ readable \in BOOLEAN
    /\ writable \in BOOLEAN
    /\ disk_full = FALSE
    /\ Budgets(MaxMessages, MaxRequests, 0, MaxEdits)
    /\ NoWebhook
    /\ InitBot
    /\ InitThreads

InitLoad ==
    /\ now = StartTime
    /\ store \in {Present(c) : c \in StoreChoices} \cup {Absent}
    /\ readable \in BOOLEAN
    /\ writable \in BOOLEAN
    /\ disk_full = FALSE
    /\ Budgets(0, MaxLoads, MaxTicks, MaxChanges)
    /\ NoWebhook
    /\ InitBot
    /\ InitThreads

\* the process starts with a readable reply.txt that holds a non-blank line
InitRotation ==
    /\ now = StartTime
    /\ store \in {Present(c) : c \in RotationPools}
    /\ readable = TRUE
    /\ writable = TRUE
    /\ disk_full = FALSE
    /\ Budgets(MaxCalls, 0, 0, 0)
    /\ NoWebhook
    /\ InitBot
    /\ InitThreads

\* the process starts with reply.txt holding two replies, with or without
\* PAGE_ACCESS_TOKEN in its environment
InitDispatch ==
    /\ now = StartTime
    /\ store = Present(PoolAB)
    /\ readable = TRUE
    /\ writable = TRUE
    /\ disk_full = FALSE
    /\ Budgets(0, 0, 0, 0)
    /\ token \in BOOLEAN
    /\ events_left = MaxEvents
    /\ InitBot
    /\ InitThreads

\* the process starts with a reply.txt of one line, shorter or longer than a
\* message may be
InitTruncate ==
    /\ now = StartTime
    /\ store \in {Present(<<LongLine(n)>>) : n \in TextLengths}
    /\ readable = TRUE
    /\ writable = TRUE
    /\ disk_full = FALSE
    /\ Budgets(0, 0, 0, 0)
    /\ token = TRUE
    /\ events_left = MaxLongMessages
    /\ InitBot
    /\ InitThreads

\* the process starts with reply.txt in any state, on a file system that may
\* be read-only or full; a file the process creates itself is readable
InitReload ==
    /\ now = StartTime
    /\ store \in {Present(c) : c \in StoreChoices} \cup {Absent}
    /\ readable \in BOOLEAN
    /\ store.exists \/ readable
    /\ writable \in BOOLEAN
    /\ disk_full \in BOOLEAN
    /\ Budgets(0, MaxReloads, 0, 0)
    /\ NoWebhook
    /\ InitBot
    /\ InitThreads

InitJanitor ==
    /\ now = StartTime
    /\ store = Present(PoolAB)
    /\ readable = TRUE
    /\ writable = TRUE
    /\ disk_full = FALSE
    /\ Budgets(MaxJanitorCalls, 0, 0, 0)
    /\ NoWebhook
    /\ InitBot
    /\ InitThreads

\* the process starts with a reply.txt of three replies, in a directory it may
\* or may not write to
InitResize ==
    /\ now = StartTime
    /\ store = Present(PoolABC)
    /\ readable = TRUE
    /\ writable \in BOOLEAN
    /\ disk_full = FALSE
    /\ Budgets(MaxResizeCalls, MaxResizeLoads, 0, MaxResizeEdits)
    /\ NoWebhook
    /\ InitBot
    /\ InitThreads

InitSweep ==
    /\ now = StartTime
    /\ store = Present(PoolAB)
    /\ readable = TRUE
    /\ writable = TRUE
    /\ disk_full = FALSE
    /\ Budgets(MaxSweepCalls, 0, MaxSweepTicks, 0)
    /\ NoWebhook
    /\ InitBot
    /\ InitThreads

\* ------------------------------------------------------------ environment
Tick(steps) ==
    /\ ticks_left > 0
    /\ \E d \in steps : now' = now + d
    /\ ticks_left' = ticks_left - 1
    /\ UNCHANGED <<store, readable, writable, edits_left, botVars, pc,
                   loadLocals, workerLocals, janitorLocals, histVars>>
    /\ UNCHANGED sideVars

EditStore ==
    /\ edits_left > 0
    /\ edits_left' = edits_left - 1
    /\ \/ /\ \E c \in StoreChoices : store' = Present(c)
          /\ UNCHANGED <<readable, writable>>
       \/ /\ store' = Absent
          /\ UNCHANGED <<readable, writable>>
       \/ /\ readable' = ~readable
          /\ UNCHANGED <<store, writable>>
       \/ /\ writable' = ~writable
          /\ UNCHANGED <<store, readable>>
    /\ last_forced' = NoForced
    /\ UNCHANGED <<now, ticks_left, botVars, pc, loadLocals, workerLocals, janitorLocals,
                   histVars, disk_full, dispatchVars>>

\* time.time() d seconds later, with no bound on how often: the code compares
\* only differences of times, so the state d seconds later is written as the
\* same state with every stored time d seconds further in the past.  A time
\* more than Horizon in the past is past both thresholds for good and is kept
\* at Horizon; a wake-up time already reached is kept at now.  The clock is
\* seen to move between the runs of code that hold a sample of it.
Horizon == InactiveThreshold + MaintenanceInterval

Max(a, b) == IF a > b THEN a ELSE b

Earlier(x, d) == Max(x - d, now - Horizon)

HoldsSample(t) ==
    IF t = Janitor THEN pc[t] # "idle" ELSE pc[t] \in {"lr_check", "lr_read", "lr_assign",
                                                       "lr_stamp", "lr_error", "cd_open",
                                                       "cd_write", "cd_written",
                                                       "cd_failed", "lr_return"}

Elapse(d) ==
    /\ \A t \in Loaders \cup {Janitor} : ~HoldsSample(t)
    /\ last_reply_reload' = Earlier(last_reply_reload, d)
    /\ user_states' = [u \in DOMAIN user_states |->
                         [user_states[u] EXCEPT !.last_active = Earlier(@, d)]]
    /\ wake_at' = Max(wake_at - d, now)
    /\ UNCHANGED <<envVars, replies_cache, reply_index, lock, pc, loadLocals,
                   workerLocals, inactive_users, cl_time, cl_before, histVars, sideVars>>

\* ------------------------------------------------- BotState.load_replies
AfterLoad(t) == IF t \in Workers THEN "gn_empty" ELSE "respond"

IsStaleInclusive(cur, last) == (cur - last) >= StalenessWindow

IsStale(cur, last) == (cur - last) > StalenessWindow

\* line 68: current_time = time.time()
LrTime(t) ==
    /\ pc[t] = "lr_time"
    /\ current_time' = [current_time EXCEPT ![t] = now]
    /\ pc' = [pc EXCEPT ![t] = "lr_check"]
    /\ UNCHANGED <<envVars, botVars, force_reload, file_lines, load_path, replies,
                   workerLocals, janitorLocals, histVars>>
    /\ UNCHANGED sideVars

\* line 70: if force_reload or (current_time - self.last_reply_reload) > 30
LrCheck(t) ==
    /\ pc[t] = "lr_check"
    /\ IF force_reload[t] \/ IsStale(current_time[t], last_reply_reload)
       THEN /\ pc' = [pc EXCEPT ![t] = "lr_read"]
            /\ UNCHANGED load_path
       ELSE /\ pc' = [pc EXCEPT ![t] = "lr_return"]
            /\ load_path' = [load_path EXCEPT ![t] = "cached"]
    /\ UNCHANGED <<envVars, botVars, current_time, force_reload, file_lines, replies,
                   workerLocals, janitorLocals, histVars>>
    /\ UNCHANGED sideVars

\* lines 72-73: open reply.txt and read its lines; FileNotFoundError goes to
\* create_default_replies (76-78), any other exception to the handler at 79-81
LrRead(t) ==
    /\ pc[t] = "lr_read"
    /\ IF ~store.exists
       THEN /\ pc' = [pc EXCEPT ![t] = "cd_open"]
            /\ UNCHANGED file_lines
       ELSE IF ~readable
       THEN /\ pc' = [pc EXCEPT ![t] = "lr_error"]
            /\ UNCHANGED file_lines
       ELSE /\ pc' = [pc EXCEPT ![t] = "lr_assign"]
            /\ file_lines' = [file_lines EXCEPT ![t] = ReadLines(store.lines)]
    /\ UNCHANGED <<envVars, botVars, current_time, force_reload, load_path, replies,
                   workerLocals, janitorLocals, histVars>>
    /\ UNCHANGED sideVars

LrAssignInPlace(t) ==
    /\ pc[t] = "lr_assign"
    /\ replies_cache' = SubSeq(file_lines[t], 1, Len(file_lines[t]) - 1)
    /\ pc' = [pc EXCEPT ![t] = "lr_stamp"]
    /\ UNCHANGED <<envVars, last_reply_reload, reply_index, user_states, lock,
                   loadLocals, workerLocals, janitorLocals, histVars>>
    /\ UNCHANGED sideVars

\* line 73: self.replies_cache = [...]
LrAssign(t) ==
    /\ pc[t] = "lr_assign"
    /\ replies_cache' = file_lines[t]
    /\ pc' = [pc EXCEPT ![t] = "lr_stamp"]
    /\ UNCHANGED <<envVars, last_reply_reload, reply_index, user_states, lock,
                   loadLocals, workerLocals, janitorLocals, histVars>>
    /\ UNCHANGED sideVars

\* line 74: self.last_reply_reload = current_time
LrStamp(t) ==
    /\ pc[t] = "lr_stamp"
    /\ last_reply_reload' = current_time[t]
    /\ load_path' = [load_path EXCEPT ![t] = "read"]
    /\ pc' = [pc EXCEPT ![t] = "lr_return"]
    /\ UNCHANGED <<envVars, replies_cache, reply_index, user_states, lock,
                   current_time, force_reload, file_lines, replies,
                   workerLocals, janitorLocals, histVars>>
    /\ UNCHANGED sideVars

\* lines 79-81: except Exception: self.replies_cache = [one fallback string]
LrError(t) ==
    /\ pc[t] = "lr_error"
    /\ replies_cache' = ErrorReplies
    /\ load_path' = [load_path EXCEPT ![t] = "error"]
    /\ pc' = [pc EXCEPT ![t] = "lr_return"]
    /\ UNCHANGED <<envVars, last_reply_reload, reply_index, user_states, lock,
                   current_time, force_reload, file_lines, replies,
                   workerLocals, janitorLocals, histVars>>
    /\ UNCHANGED sideVars

CdOpenRaises(t) ==
    /\ pc[t] = "cd_open"
    /\ IF writable
       THEN /\ store' = Present(<<>>)
            /\ pc' = [pc EXCEPT ![t] = "cd_write"]
            /\ UNCHANGED lock
       ELSE /\ pc' = [pc EXCEPT ![t] = "fault"]
            /\ lock' = IF lock = t THEN Free ELSE lock
            /\ UNCHANGED store
    /\ UNCHANGED <<now, ticks_left, readable, writable, edits_left, replies_cache,
                   last_reply_reload, reply_index, user_states, loadLocals,
                   workerLocals, janitorLocals, histVars>>
    /\ UNCHANGED sideVars

\* line 101: open("reply.txt", "w") creates or truncates the file, or raises
CdOpen(t) ==
    /\ pc[t] = "cd_open"
    /\ IF writable
       THEN /\ store' = Present(<<>>)
            /\ pc' = [pc EXCEPT ![t] = "cd_write"]
       ELSE /\ pc' = [pc EXCEPT ![t] = "cd_failed"]
            /\ UNCHANGED store
    /\ UNCHANGED <<now, ticks_left, readable, writable, edits_left, botVars, loadLocals,
                   workerLocals, janitorLocals, histVars>>
    /\ UNCHANGED sideVars

\* line 102 and the close of the with block: the joined defaults reach the file,
\* or the write raises (no permission, no space left) and leaves what open() left
CdWrite(t) ==
    /\ pc[t] = "cd_write"
    /\ IF writable /\ ~disk_full
       THEN /\ store' = Present(JoinLines(DefaultReplies))
            /\ pc' = [pc EXCEPT ![t] = "cd_written"]
       ELSE /\ pc' = [pc EXCEPT ![t] = "cd_failed"]
            /\ UNCHANGED store
    /\ UNCHANGED <<now, ticks_left, readable, writable, edits_left, botVars, loadLocals,
                   workerLocals, janitorLocals, histVars>>
    /\ UNCHANGED sideVars

CdWrittenStamps(t) ==
    /\ pc[t] = "cd_written"
    /\ replies_cache' = DefaultReplies
    /\ last_reply_reload' = current_time[t]
    /\ load_path' = [load_path EXCEPT ![t] = "seeded"]
    /\ pc' = [pc EXCEPT ![t] = "lr_return"]
    /\ UNCHANGED <<envVars, reply_index, user_states, lock,
                   current_time, force_reload, file_lines, replies,
                   workerLocals, janitorLocals, histVars, sideVars>>

\* line 103: self.replies_cache = default_replies
CdWritten(t) ==
    /\ pc[t] = "cd_written"
    /\ replies_cache' = DefaultReplies
    /\ load_path' = [load_path EXCEPT ![t] = "seeded"]
    /\ pc' = [pc EXCEPT ![t] = "lr_return"]
    /\ UNCHANGED <<envVars, last_reply_reload, reply_index, user_states, lock,
                   current_time, force_reload, file_lines, replies,
                   workerLocals, janitorLocals, histVars>>
    /\ UNCHANGED sideVars

CdFailedKeepsCache(t) ==
    /\ pc[t] = "cd_failed"
    /\ load_path' = [load_path EXCEPT ![t] = "seed_failed"]
    /\ pc' = [pc EXCEPT ![t] = "lr_return"]
    /\ UNCHANGED <<envVars, botVars, current_time, force_reload, file_lines, replies,
                   workerLocals, janitorLocals, histVars>>
    /\ UNCHANGED sideVars

\* lines 105-107: except Exception: self.replies_cache = default_replies
CdFailed(t) ==
    /\ pc[t] = "cd_failed"
    /\ replies_cache' = DefaultReplies
    /\ load_path' = [load_path EXCEPT ![t] = "seed_failed"]
    /\ pc' = [pc EXCEPT ![t] = "lr_return"]
    /\ UNCHANGED <<envVars, last_reply_reload, reply_index, user_states, lock,
                   current_time, force_reload, file_lines, replies,
                   workerLocals, janitorLocals, histVars>>
    /\ UNCHANGED sideVars

\* line 83: return self.replies_cache
LrReturn(t) ==
    /\ pc[t] = "lr_return"
    /\ replies' = [replies EXCEPT ![t] = replies_cache]
    /\ pc' = [pc EXCEPT ![t] = AfterLoad(t)]
    /\ loaded' = TRUE
    /\ current_time' = [current_time EXCEPT ![t] = 0]
    /\ file_lines' = [file_lines EXCEPT ![t] = <<>>]
    /\ UNCHANGED <<envVars, botVars, force_reload, load_path,
                   workerLocals, janitorLocals, calls_left, loads_left, consumed, returned,
                   swept>>
    /\ UNCHANGED sideVars

\* ------------------------------------------------ BotState.get_next_reply
LockFree == lock = Free

Release(t) == IF lock = t THEN Free ELSE lock

ReplyAtOffByOne(list, index) == list[((index + 1) % Len(list)) + 1]

ReplyAt(list, index) == list[(index % Len(list)) + 1]

Append1(h, u, x) == [h EXCEPT ![u] = Append(@, x)]

\* lines 315-321 and 240: a thread is started for the message and calls
\* bot_state.get_next_reply(sender_id)
ProcessMessage(t, u) ==
    /\ pc[t] = "idle"
    /\ calls_left > 0
    /\ calls_left' = calls_left - 1
    /\ user_id' = [user_id EXCEPT ![t] = u]
    /\ pc' = [pc EXCEPT ![t] = "gn_lock"]
    /\ UNCHANGED <<envVars, botVars, loadLocals, tmp_index, reply, janitorLocals,
                   loads_left, consumed, returned, loaded, swept>>
    /\ UNCHANGED sideVars

GnAcquireNoLock(t) ==
    /\ pc[t] = "gn_lock"
    /\ force_reload' = [force_reload EXCEPT ![t] = FALSE]
    /\ pc' = [pc EXCEPT ![t] = "lr_time"]
    /\ UNCHANGED <<envVars, botVars, current_time, file_lines, load_path, replies,
                   workerLocals, janitorLocals, histVars>>
    /\ UNCHANGED sideVars

\* line 111: with self.lock; line 112: replies = self.load_replies()
GnAcquire(t) ==
    /\ pc[t] = "gn_lock"
    /\ LockFree
    /\ lock' = t
    /\ force_reload' = [force_reload EXCEPT ![t] = FALSE]
    /\ pc' = [pc EXCEPT ![t] = "lr_time"]
    /\ UNCHANGED <<envVars, replies_cache, last_reply_reload, reply_index, user_states,
                   current_time, file_lines, load_path, replies, workerLocals,
                   janitorLocals, histVars>>
    /\ UNCHANGED sideVars

GnEmptyNoFallback(t) ==
    /\ pc[t] = "gn_empty"
    /\ pc' = [pc EXCEPT ![t] = "gn_user"]
    /\ UNCHANGED <<envVars, botVars, loadLocals, workerLocals, janitorLocals, histVars>>
    /\ UNCHANGED sideVars

GnEmptyAdvances(t) ==
    /\ pc[t] = "gn_empty"
    /\ IF replies[t] = <<>>
       THEN /\ reply' = [reply EXCEPT ![t] = EmptyPoolReply]
            /\ pc' = [pc EXCEPT ![t] = "gn_return"]
            /\ user_states' =
                  IF user_id[t] \in DOMAIN user_states
                  THEN [user_states EXCEPT ![user_id[t]].reply_index = @ + 1]
                  ELSE user_states
       ELSE /\ pc' = [pc EXCEPT ![t] = "gn_user"]
            /\ UNCHANGED <<reply, user_states>>
    /\ UNCHANGED <<envVars, replies_cache, last_reply_reload, reply_index, lock,
                   loadLocals, user_id, tmp_index, janitorLocals, histVars, sideVars>>

\* lines 114-115: if not replies: return the hard-coded reply
GnEmpty(t) ==
    /\ pc[t] = "gn_empty"
    /\ IF replies[t] = <<>>
       THEN /\ reply' = [reply EXCEPT ![t] = EmptyPoolReply]
            /\ pc' = [pc EXCEPT ![t] = "gn_return"]
       ELSE /\ pc' = [pc EXCEPT ![t] = "gn_user"]
            /\ UNCHANGED reply
    /\ UNCHANGED <<envVars, botVars, loadLocals, user_id, tmp_index, janitorLocals,
                   histVars>>
    /\ UNCHANGED sideVars

\* lines 117-119: if user_id: create the entry when it is missing
GnUser(t) ==
    /\ pc[t] = "gn_user"
    /\ IF user_id[t] = NoUser
       THEN /\ pc' = [pc EXCEPT ![t] = "gn_global"]
            /\ UNCHANGED user_states
       ELSE /\ pc' = [pc EXCEPT ![t] = "gn_select"]
            /\ IF user_id[t] \in DOMAIN user_states
               THEN UNCHANGED user_states
               ELSE user_states' =
                        [u \in DOMAIN user_states \cup {user_id[t]} |->
                            IF u = user_id[t]
                            THEN [reply_index |-> 0, last_active |-> now]
                            ELSE user_states[u]]
    /\ UNCHANGED <<envVars, replies_cache, last_reply_reload, reply_index, lock,
                   loadLocals, workerLocals, janitorLocals, histVars>>
    /\ UNCHANGED sideVars

\* a fault leaves the with block, which releases the lock
Fault(t) ==
    /\ pc' = [pc EXCEPT ![t] = "fault"]
    /\ lock' = Release(t)

GnSelectNoModulo(t) ==
    /\ pc[t] = "gn_select"
    /\ IF \/ user_id[t] \notin DOMAIN user_states
          \/ user_states[user_id[t]].reply_index >= Len(replies[t])
       THEN /\ Fault(t)
            /\ UNCHANGED <<reply, consumed, returned>>
       ELSE /\ reply' = [reply EXCEPT ![t] =
                            replies[t][user_states[user_id[t]].reply_index + 1]]
            /\ consumed' = Append1(consumed, user_id[t],
                                   user_states[user_id[t]].reply_index)
            /\ returned' = Append1(returned, user_id[t], reply'[t])
            /\ pc' = [pc EXCEPT ![t] = "gn_incr_load"]
            /\ UNCHANGED lock
    /\ UNCHANGED <<envVars, replies_cache, last_reply_reload, reply_index, user_states,
                   loadLocals, user_id, tmp_index, janitorLocals, calls_left, loads_left,
                   loaded, swept, sideVars>>

\* lines 121-122: user_state = self.user_states[user_id];
\* reply = replies[user_state["reply_index"] % len(replies)]
GnSelect(t) ==
    /\ pc[t] = "gn_select"
    /\ IF user_id[t] \notin DOMAIN user_states \/ replies[t] = <<>>
       THEN /\ Fault(t)
            /\ UNCHANGED <<reply, consumed, returned>>
       ELSE /\ reply' = [reply EXCEPT ![t] =
                            ReplyAt(replies[t], user_states[user_id[t]].reply_index)]
            /\ consumed' = Append1(consumed, user_id[t],
                                   user_states[user_id[t]].reply_index)
            /\ returned' = Append1(returned, user_id[t], reply'[t])
            /\ pc' = [pc EXCEPT ![t] = "gn_incr_load"]
            /\ UNCHANGED lock
    /\ UNCHANGED <<envVars, replies_cache, last_reply_reload, reply_index, user_states,
                   loadLocals, user_id, tmp_index, janitorLocals, calls_left, loads_left,
                   loaded, swept>>
    /\ UNCHANGED sideVars

\* line 123, first half: load user_state["reply_index"]
GnIncrLoad(t) ==
    /\ pc[t] = "gn_incr_load"
    /\ tmp_index' = [tmp_index EXCEPT ![t] =
                        IF user_id[t] \in DOMAIN user_states
                        THEN user_states[user_id[t]].reply_index ELSE 0]
    /\ pc' = [pc EXCEPT ![t] = "gn_incr_store"]
    /\ UNCHANGED <<envVars, botVars, loadLocals, user_id, reply, janitorLocals,
                   histVars>>
    /\ UNCHANGED sideVars

\* line 123, second half: store the incremented value in the entry the thread
\* holds (an entry already deleted from the table is no longer visible)
GnIncrStore(t) ==
    /\ pc[t] = "gn_incr_store"
    /\ user_states' =
          IF user_id[t] \in DOMAIN user_states
          THEN [user_states EXCEPT ![user_id[t]].reply_index = tmp_index[t] + 1]
          ELSE user_states
    /\ tmp_index' = [tmp_index EXCEPT ![t] = 0]
    /\ pc' = [pc EXCEPT ![t] = "gn_touch"]
    /\ UNCHANGED <<envVars, replies_cache, last_reply_reload, reply_index, lock,
                   loadLocals, user_id, reply, janitorLocals, histVars>>
    /\ UNCHANGED sideVars

\* line 124: user_state["last_active"] = time.time()
GnTouch(t) ==
    /\ pc[t] = "gn_touch"
    /\ user_states' =
          IF user_id[t] \in DOMAIN user_states
          THEN [user_states EXCEPT ![user_id[t]].last_active = now]
          ELSE user_states
    /\ pc' = [pc EXCEPT ![t] = "gn_return"]
    /\ UNCHANGED <<envVars, replies_cache, last_reply_reload, reply_index, lock,
                   loadLocals, workerLocals, janitorLocals, histVars>>
    /\ UNCHANGED sideVars

\* line 126: reply = replies[self.reply_index % len(replies)]
GnGlobal(t) ==
    /\ pc[t] = "gn_global"
    /\ IF replies[t] = <<>>
       THEN /\ Fault(t)
            /\ UNCHANGED reply
       ELSE /\ reply' = [reply EXCEPT ![t] = ReplyAt(replies[t], reply_index)]
            /\ pc' = [pc EXCEPT ![t] = "gn_gincr_load"]
            /\ UNCHANGED lock
    /\ UNCHANGED <<envVars, replies_cache, last_reply_reload, reply_index, user_states,
                   loadLocals, user_id, tmp_index, janitorLocals, histVars>>
    /\ UNCHANGED sideVars

\* line 127, first half: load self.reply_index
GnGlobalIncrLoad(t) ==
    /\ pc[t] = "gn_gincr_load"
    /\ tmp_index' = [tmp_index EXCEPT ![t] = reply_index]
    /\ pc' = [pc EXCEPT ![t] = "gn_gincr_store"]
    /\ UNCHANGED <<envVars, botVars, loadLocals, user_id, reply, janitorLocals,
                   histVars>>
    /\ UNCHANGED sideVars

\* line 127, second half: store self.reply_index
GnGlobalIncrStore(t) ==
    /\ pc[t] = "gn_gincr_store"
    /\ reply_index' = tmp_index[t] + 1
    /\ tmp_index' = [tmp_index EXCEPT ![t] = 0]
    /\ pc' = [pc EXCEPT ![t] = "gn_return"]
    /\ UNCHANGED <<envVars, replies_cache, last_reply_reload, user_states, lock,
                   loadLocals, user_id, reply, janitorLocals, histVars>>
    /\ UNCHANGED sideVars

\* the cursor the call in progress selected with, for the record of what was sent
CursorUsed(t) ==
    IF replies[t] = <<>> \/ user_id[t] = NoUser \/ consumed[user_id[t]] = <<>>
    THEN NoCursor
    ELSE consumed[user_id[t]][Len(consumed[user_id[t]])]

\* lines 115 and 129: return reply, leaving the with block; a call made on its
\* own ends the thread with its locals, a call made by process_message (line
\* 240) hands reply_text to the send at line 243
GnReturn(t) ==
    /\ pc[t] = "gn_return"
    /\ lock' = Release(t)
    /\ replies' = [replies EXCEPT ![t] = <<>>]
    /\ load_path' = [load_path EXCEPT ![t] = "none"]
    /\ IF mode[t] = "message"
       THEN /\ pc' = [pc EXCEPT ![t] = "pm_send"]
            /\ pm_steps' = [pm_steps EXCEPT ![t] = Append(@, "resolve")]
            /\ resolved' = [resolved EXCEPT ![t] = CursorUsed(t)]
            /\ UNCHANGED <<reply, user_id>>
       ELSE /\ pc' = [pc EXCEPT ![t] = "idle"]
            /\ reply' = [reply EXCEPT ![t] = <<>>]
            /\ user_id' = [user_id EXCEPT ![t] = NoUser]
            /\ UNCHANGED <<pm_steps, resolved>>
    /\ UNCHANGED <<envVars, replies_cache, last_reply_reload, reply_index, user_states,
                   current_time, force_reload, file_lines, tmp_index,
                   janitorLocals, histVars, disk_full, last_forced, token, outbox,
                   sendLocals, mode, hookVars>>

\* ----------------------------- home, stats, reload_replies, the start-up load
\* lines 352, 390 (force_reload = False) and 367, 442 (force_reload = True):
\* load_replies called without the lock
ManagementRequest(t, force) ==
    /\ pc[t] = "idle"
    /\ loads_left > 0
    /\ loads_left' = loads_left - 1
    /\ force_reload' = [force_reload EXCEPT ![t] = force]
    /\ pc' = [pc EXCEPT ![t] = "lr_time"]
    /\ UNCHANGED <<envVars, botVars, current_time, file_lines, load_path, replies,
                   workerLocals, janitorLocals, calls_left, consumed, returned, loaded,
                   swept>>
    /\ UNCHANGED sideVars

\* lines 347-360, 370-376, 387-407: the endpoint builds its response and ends
ManagementResponse(t) ==
    /\ pc[t] = "respond"
    /\ replies' = [replies EXCEPT ![t] = <<>>]
    /\ load_path' = [load_path EXCEPT ![t] = "none"]
    /\ force_reload' = [force_reload EXCEPT ![t] = FALSE]
    /\ pc' = [pc EXCEPT ![t] = "idle"]
    /\ UNCHANGED <<envVars, botVars, current_time, file_lines, workerLocals,
                   janitorLocals, histVars, sideVars>>

\* lines 367-376: reload_replies builds its response from the list the forced
\* load returned, which is kept for the comparison with the next one
ReloadResponse(t) ==
    /\ pc[t] = "respond"
    /\ force_reload[t]
    /\ last_forced' = [valid |-> TRUE, list |-> replies[t]]
    /\ replies' = [replies EXCEPT ![t] = <<>>]
    /\ load_path' = [load_path EXCEPT ![t] = "none"]
    /\ force_reload' = [force_reload EXCEPT ![t] = FALSE]
    /\ pc' = [pc EXCEPT ![t] = "idle"]
    /\ UNCHANGED <<envVars, botVars, current_time, file_lines, workerLocals,
                   janitorLocals, histVars, disk_full, dispatchVars>>

\* ------------------ background_maintenance, BotState.cleanup_inactive_users
IsInactiveInclusive(cur, state) == cur - state.last_active >= InactiveThreshold

IsInactive(cur, state) == cur - state.last_active > InactiveThreshold

\* lines 423 and 133: time.sleep(300) is over; current_time = time.time()
ClStart ==
    /\ pc[Janitor] = "idle"
    /\ now >= wake_at
    /\ cl_time' = now
    /\ pc' = [pc EXCEPT ![Janitor] = "cl_lock"]
    /\ UNCHANGED <<envVars, botVars, loadLocals, workerLocals, inactive_users,
                   cl_before, wake_at, histVars>>
    /\ UNCHANGED sideVars

ClAcquireNoLock ==
    /\ pc[Janitor] = "cl_lock"
    /\ pc' = [pc EXCEPT ![Janitor] = "cl_scan"]
    /\ UNCHANGED <<envVars, botVars, loadLocals, workerLocals, janitorLocals, histVars>>
    /\ UNCHANGED sideVars

\* line 136: with self.lock
ClAcquire ==
    /\ pc[Janitor] = "cl_lock"
    /\ LockFree
    /\ lock' = Janitor
    /\ pc' = [pc EXCEPT ![Janitor] = "cl_scan"]
    /\ UNCHANGED <<envVars, replies_cache, last_reply_reload, reply_index, user_states,
                   loadLocals, workerLocals, janitorLocals, histVars>>
    /\ UNCHANGED sideVars

\* lines 137-140: the list of inactive users
ClScan ==
    /\ pc[Janitor] = "cl_scan"
    /\ inactive_users' =
          {u \in DOMAIN user_states : IsInactive(cl_time, user_states[u])}
    /\ cl_before' = user_states
    /\ pc' = [pc EXCEPT ![Janitor] = "cl_delete"]
    /\ UNCHANGED <<envVars, botVars, loadLocals, workerLocals, cl_time, wake_at,
                   histVars>>
    /\ UNCHANGED sideVars

\* lines 142-143: del self.user_states[user_id], one user per iteration
ClDelete ==
    /\ pc[Janitor] = "cl_delete"
    /\ inactive_users # {}
    /\ \E u \in inactive_users :
          /\ inactive_users' = inactive_users \ {u}
          /\ IF u \in DOMAIN user_states
             THEN /\ user_states' = [v \in DOMAIN user_states \ {u} |-> user_states[v]]
                  /\ consumed' = [consumed EXCEPT ![u] = <<>>]
                  /\ returned' = [returned EXCEPT ![u] = <<>>]
                  /\ swept' = swept \cup {u}
                  /\ UNCHANGED <<pc, lock>>
             ELSE /\ Fault(Janitor)
                  /\ UNCHANGED <<user_states, consumed, returned, swept>>
    /\ UNCHANGED <<envVars, replies_cache, last_reply_reload, reply_index,
                   loadLocals, workerLocals, cl_time, cl_before, wake_at, calls_left,
                   loads_left, loaded>>
    /\ UNCHANGED sideVars

ClReleaseOnce ==
    /\ pc[Janitor] = "cl_delete"
    /\ inactive_users = {}
    /\ lock' = Release(Janitor)
    /\ cl_time' = 0
    /\ cl_before' = NoEntries
    /\ pc' = [pc EXCEPT ![Janitor] = "ended"]
    /\ UNCHANGED <<envVars, replies_cache, last_reply_reload, reply_index, user_states,
                   loadLocals, workerLocals, inactive_users, wake_at, histVars, sideVars>>

\* lines 145-146 and 423: the with block ends; the thread sleeps again
ClRelease ==
    /\ pc[Janitor] = "cl_delete"
    /\ inactive_users = {}
    /\ lock' = Release(Janitor)
    /\ wake_at' = now + MaintenanceInterval
    /\ cl_time' = 0
    /\ cl_before' = NoEntries
    /\ pc' = [pc EXCEPT ![Janitor] = "idle"]
    /\ UNCHANGED <<envVars, replies_cache, last_reply_reload, reply_index, user_states,
                   loadLocals, workerLocals, inactive_users, histVars>>
    /\ UNCHANGED sideVars

\* --------------------------------------------- MessengerAPI.send_message
\* what requests.post does: a response with status 200, a response with another
\* status, requests.exceptions.Timeout, another RequestException, or any
\* other exception
Outcomes == {"200", "status", "timeout", "transport", "other"}

AfterSend(t) == IF t = Handler THEN "wh_respond" ELSE "pm_typing_off"

Recipient(t) == IF t = Handler THEN wh_event.sender ELSE user_id[t]

Request(t, kind, body, cursor) ==
    [by |-> t, to |-> Recipient(t), kind |-> kind, body |-> body, cursor |-> cursor]

TruncateAtLimit(text) ==
    IF Len(text) > MessageLimit
    THEN SubSeq(text, 1, MessageLimit) \o Marker
    ELSE text

\* lines 165-166: if len(text) > 2000: text = text[:1997] + "..."
Truncate(text) ==
    IF Len(text) > MessageLimit
    THEN SubSeq(text, 1, TruncatedPrefix) \o Marker
    ELSE text

\* lines 156-158: if not config.page_access_token: return False
SmCheckRaises(t) ==
    /\ pc[t] = "sm_check"
    /\ pc' = [pc EXCEPT ![t] = IF token THEN "sm_truncate" ELSE "fault"]
    /\ UNCHANGED <<envVars, botVars, loadLocals, workerLocals, janitorLocals, histVars,
                   sideVars>>

SmCheck(t) ==
    /\ pc[t] = "sm_check"
    /\ IF ~token
       THEN /\ success' = [success EXCEPT ![t] = "False"]
            /\ pc' = [pc EXCEPT ![t] = AfterSend(t)]
       ELSE /\ pc' = [pc EXCEPT ![t] = "sm_truncate"]
            /\ UNCHANGED success
    /\ UNCHANGED <<envVars, botVars, loadLocals, workerLocals, janitorLocals, histVars,
                   disk_full, last_forced, token, outbox, sm_text, sm_outcome, attempts,
                   messageLocals, hookVars>>

\* lines 164-172: the text of the request body
SmTruncate(t) ==
    /\ pc[t] = "sm_truncate"
    /\ sm_text' = [sm_text EXCEPT ![t] = Truncate(@)]
    /\ pc' = [pc EXCEPT ![t] = "sm_post"]
    /\ UNCHANGED <<envVars, botVars, loadLocals, workerLocals, janitorLocals, histVars,
                   disk_full, last_forced, token, outbox, sm_outcome, success, attempts,
                   messageLocals, hookVars>>

SmPostRetries(t) ==
    /\ pc[t] = "sm_post"
    /\ outbox' = Append(outbox,
                        Request(t, "message", sm_text[t],
                                IF t = Handler THEN NoCursor ELSE resolved[t]))
    /\ attempts' = [attempts EXCEPT ![t] = @ + 1]
    /\ \E o \in Outcomes :
          /\ sm_outcome' = [sm_outcome EXCEPT ![t] = o]
          /\ success' = [success EXCEPT ![t] = IF o = "200" THEN "True" ELSE "False"]
          /\ pc' = [pc EXCEPT ![t] = IF o # "200" /\ attempts[t] = 0
                                     THEN "sm_post" ELSE AfterSend(t)]
    /\ UNCHANGED <<envVars, botVars, loadLocals, workerLocals, janitorLocals, histVars,
                   disk_full, last_forced, token, sm_text, messageLocals, hookVars>>

\* lines 174-202: one requests.post; True on status 200, False on any other
\* status and in the three except clauses
SmPost(t) ==
    /\ pc[t] = "sm_post"
    /\ outbox' = Append(outbox,
                        Request(t, "message", sm_text[t],
                                IF t = Handler THEN NoCursor ELSE resolved[t]))
    /\ attempts' = [attempts EXCEPT ![t] = @ + 1]
    /\ \E o \in Outcomes :
          /\ sm_outcome' = [sm_outcome EXCEPT ![t] = o]
          /\ success' = [success EXCEPT ![t] = IF o = "200" THEN "True" ELSE "False"]
    /\ pc' = [pc EXCEPT ![t] = AfterSend(t)]
    /\ UNCHANGED <<envVars, botVars, loadLocals, workerLocals, janitorLocals, histVars,
                   disk_full, last_forced, token, sm_text, messageLocals, hookVars>>

\* ------------------------------------- MessengerAPI.send_typing_indicator
\* lines 207-223: no request without the token; otherwise one request whose
\* outcome only decides a return value
TypingRequest(t, action) ==
    IF token THEN Append(outbox, Request(t, action, <<>>, NoCursor)) ELSE outbox

\* ---------------------------------------- MessageProcessor.process_message
\* lines 234 and 237: send_typing_indicator(sender_id, "typing_on"); time.sleep(1)
PmTypingOn(t) ==
    /\ pc[t] = "pm_typing_on"
    /\ outbox' = TypingRequest(t, "typing_on")
    /\ pm_steps' = [pm_steps EXCEPT ![t] = Append(@, "typing_on")]
    /\ pc' = [pc EXCEPT ![t] = "gn_lock"]
    /\ UNCHANGED <<envVars, botVars, loadLocals, workerLocals, janitorLocals, histVars,
                   disk_full, last_forced, token, sendLocals, mode, resolved, hookVars>>

\* line 243: success = MessengerAPI.send_message(sender_id, reply_text)
PmSend(t) ==
    /\ pc[t] = "pm_send"
    /\ sm_text' = [sm_text EXCEPT ![t] = reply[t]]
    /\ pm_steps' = [pm_steps EXCEPT ![t] = Append(@, "send")]
    /\ pc' = [pc EXCEPT ![t] = "sm_check"]
    /\ UNCHANGED <<envVars, botVars, loadLocals, workerLocals, janitorLocals, histVars,
                   disk_full, last_forced, token, outbox, sm_outcome, success, attempts,
                   mode, resolved, hookVars>>

PmTypingOffRetries(t) ==
    /\ pc[t] = "pm_typing_off"
    /\ outbox' = TypingRequest(t, "typing_off")
    /\ pm_steps' = [pm_steps EXCEPT ![t] = Append(@, "typing_off")]
    /\ pc' = [pc EXCEPT ![t] = IF success[t] = "False" /\ Len(pm_steps[t]) < 4
                               THEN "pm_send" ELSE "pm_log"]
    /\ UNCHANGED <<envVars, botVars, loadLocals, workerLocals, janitorLocals, histVars,
                   disk_full, last_forced, token, sendLocals, mode, resolved, hookVars>>

\* line 246: send_typing_indicator(sender_id, "typing_off")
PmTypingOff(t) ==
    /\ pc[t] = "pm_typing_off"
    /\ outbox' = TypingRequest(t, "typing_off")
    /\ pm_steps' = [pm_steps EXCEPT ![t] = Append(@, "typing_off")]
    /\ pc' = [pc EXCEPT ![t] = "pm_log"]
    /\ UNCHANGED <<envVars, botVars, loadLocals, workerLocals, janitorLocals, histVars,
                   disk_full, last_forced, token, sendLocals, mode, resolved, hookVars>>

\* lines 248-251: the outcome is logged and the thread ends with its locals
PmLog(t) ==
    /\ pc[t] = "pm_log"
    /\ pc' = [pc EXCEPT ![t] = "idle"]
    /\ user_id' = [user_id EXCEPT ![t] = NoUser]
    /\ reply' = [reply EXCEPT ![t] = <<>>]
    /\ sm_text' = [sm_text EXCEPT ![t] = <<>>]
    /\ sm_outcome' = [sm_outcome EXCEPT ![t] = "none"]
    /\ success' = [success EXCEPT ![t] = "none"]
    /\ attempts' = [attempts EXCEPT ![t] = 0]
    /\ mode' = [mode EXCEPT ![t] = "call"]
    /\ pm_steps' = [pm_steps EXCEPT ![t] = <<>>]
    /\ resolved' = [resolved EXCEPT ![t] = NoCursor]
    /\ UNCHANGED <<envVars, botVars, loadLocals, tmp_index, janitorLocals, histVars,
                   disk_full, last_forced, token, outbox, hookVars>>

\* ----------------------------------- handle_webhook_event and its callees
\* the POST body: no data, an event without sender id, a text message, a text
\* of whitespace, a message with attachments, the GET_STARTED postback,
\* another postback, or an event whose fields have the wrong type
EventKinds ==
    {"empty", "no_sender", "text", "blank", "attachment", "get_started", "postback",
     "malformed"}

SendingKinds == {"attachment", "get_started"}

IdleWorker == IF pc["w1"] = "idle" THEN "w1" ELSE "w2"

\* line 277: data = request.json, on a thread of the web server; a thread for
\* a text message can always be started
WhReceive(kind, u) ==
    /\ pc[Handler] = "idle"
    /\ events_left > 0
    /\ kind = "text" => \E w \in Workers : pc[w] = "idle"
    /\ events_left' = events_left - 1
    /\ wh_event' = [kind |-> kind, sender |-> IF kind \in {"empty", "no_sender"}
                                               THEN NoUser ELSE u]
    /\ wh_status' = "none"
    /\ pc' = [pc EXCEPT ![Handler] = "wh_dispatch"]
    /\ UNCHANGED <<envVars, botVars, loadLocals, workerLocals, janitorLocals, histVars,
                   disk_full, last_forced, token, outbox, sendLocals, messageLocals>>

\* lines 279-285 with process_messaging_event (293-304), handle_message_event
\* (306-328) and handle_postback_event (330-341)
WhDispatch ==
    /\ pc[Handler] = "wh_dispatch"
    /\ IF wh_event.kind = "empty"
       THEN /\ wh_status' = "400"
            /\ pc' = [pc EXCEPT ![Handler] = "idle"]
            /\ UNCHANGED <<user_id, mode, sm_text>>
       ELSE IF wh_event.kind = "malformed"
       THEN /\ pc' = [pc EXCEPT ![Handler] = "fault"]
            /\ UNCHANGED <<user_id, mode, sm_text, wh_status>>
       ELSE IF wh_event.kind = "text"
       THEN /\ pc' = [pc EXCEPT ![Handler] = "wh_respond",
                                ![IdleWorker] = "pm_typing_on"]
            /\ user_id' = [user_id EXCEPT ![IdleWorker] = wh_event.sender]
            /\ mode' = [mode EXCEPT ![IdleWorker] = "message"]
            /\ UNCHANGED <<sm_text, wh_status>>
       ELSE IF wh_event.kind \in SendingKinds
       THEN /\ sm_text' = [sm_text EXCEPT ![Handler] =
                              IF wh_event.kind = "attachment"
                              THEN AttachmentReply ELSE WelcomeReply]
            /\ pc' = [pc EXCEPT ![Handler] = "sm_check"]
            /\ UNCHANGED <<user_id, mode, wh_status>>
       ELSE /\ pc' = [pc EXCEPT ![Handler] = "wh_respond"]
            /\ UNCHANGED <<user_id, mode, sm_text, wh_status>>
    /\ UNCHANGED <<envVars, botVars, loadLocals, tmp_index, reply, janitorLocals,
                   histVars, disk_full, last_forced, token, outbox, sm_outcome, success,
                   attempts, pm_steps, resolved, wh_event, events_left>>

\* line 287: return 200; lines 289-291: except Exception: return 500
WhRespond ==
    /\ pc[Handler] \in {"wh_respond", "fault"}
    /\ wh_status' = IF pc[Handler] = "fault" THEN "500" ELSE "200"
    /\ pc' = [pc EXCEPT ![Handler] = "idle"]
    /\ sm_text' = [sm_text EXCEPT ![Handler] = <<>>]
    /\ sm_outcome' = [sm_outcome EXCEPT ![Handler] = "none"]
    /\ success' = [success EXCEPT ![Handler] = "none"]
    /\ attempts' = [attempts EXCEPT ![Handler] = 0]
    /\ UNCHANGED <<envVars, botVars, loadLocals, workerLocals, janitorLocals, histVars,
                   disk_full, last_forced, token, outbox, messageLocals, wh_event,
                   events_left>>

\* ---------------------------------------------------------- specifications
ReadStep(t) ==
    \/ LrTime(t) \/ LrCheck(t) \/ LrRead(t) \/ LrAssign(t) \/ LrStamp(t) \/ LrReturn(t)

RecoverStep(t) ==
    \/ LrError(t) \/ CdOpen(t) \/ CdWrite(t) \/ CdWritten(t) \/ CdFailed(t)

SenderStep(t) ==
    \/ GnAcquire(t) \/ GnEmpty(t) \/ GnUser(t) \/ GnSelect(t) \/ GnIncrLoad(t)
    \/ GnIncrStore(t) \/ GnTouch(t) \/ GnReturn(t)

GlobalStep(t) ==
    \/ GnGlobal(t) \/ GnGlobalIncrLoad(t) \/ GnGlobalIncrStore(t)

JanitorStep == ClStart \/ ClAcquire \/ ClScan \/ ClDelete \/ ClRelease

LoadTicks == {1, StalenessWindow}
SweepTicks == {1, InactiveThreshold - 1}
RaceWorkers == {"w1"}
RaceUsers == {"u1", NoUser}

Next ==
    \/ EditStore
    \/ \E t \in RaceWorkers, u \in RaceUsers : ProcessMessage(t, u)
    \/ \E t \in Managers, f \in BOOLEAN : ManagementRequest(t, f)
    \/ \E t \in Managers : ManagementResponse(t)
    \/ \E t \in Loaders : ReadStep(t) \/ RecoverStep(t)
    \/ \E t \in Workers : SenderStep(t) \/ GlobalStep(t)

Spec == Init /\ [][Next]_vars

NextLoad ==
    \/ Tick(LoadTicks)
    \/ EditStore
    \/ \E t \in Managers, f \in BOOLEAN : ManagementRequest(t, f)
    \/ \E t \in Managers : ManagementResponse(t)
    \/ \E t \in Managers : ReadStep(t) \/ RecoverStep(t)

SpecLoad == InitLoad /\ [][NextLoad]_vars

NextRotation ==
    \/ \E t \in Workers, u \in Users : ProcessMessage(t, u)
    \/ \E t \in Workers : ReadStep(t)
    \/ \E t \in Workers : SenderStep(t)

SpecRotation == InitRotation /\ [][NextRotation]_vars

NextSweep ==
    \/ Tick(SweepTicks)
    \/ \E t \in Workers, u \in Users : ProcessMessage(t, u)
    \/ \E t \in Workers : ReadStep(t)
    \/ \E t \in Workers : SenderStep(t)
    \/ JanitorStep

SpecSweep == InitSweep /\ [][NextSweep]_vars

SendStep(t) == SmCheck(t) \/ SmTruncate(t) \/ SmPost(t)

MessageStep(t) == PmTypingOn(t) \/ PmSend(t) \/ PmTypingOff(t) \/ PmLog(t)

HookStep == WhDispatch \/ WhRespond

DispatchUsers == {"u1"}

NextDispatch ==
    \/ \E kind \in EventKinds, u \in DispatchUsers : WhReceive(kind, u)
    \/ HookStep
    \/ \E t \in Senders : SendStep(t)
    \/ \E t \in Workers : MessageStep(t)
    \/ \E t \in Workers : ReadStep(t)
    \/ \E t \in Workers : SenderStep(t)

SpecDispatch == InitDispatch /\ [][NextDispatch]_vars

NextReload ==
    \/ \E t \in Managers : ManagementRequest(t, TRUE)
    \/ \E t \in Managers : ReloadResponse(t)
    \/ \E t \in Managers : ReadStep(t) \/ RecoverStep(t)

SpecReload == InitReload /\ [][NextReload]_vars

ElapseSteps == {MaintenanceInterval, InactiveThreshold}

NextJanitor ==
    \/ \E d \in ElapseSteps : Elapse(d)
    \/ \E t \in RaceWorkers, u \in Users : ProcessMessage(t, u)
    \/ \E t \in RaceWorkers : ReadStep(t)
    \/ \E t \in RaceWorkers : SenderStep(t)
    \/ JanitorStep

\* the clock moves on, a thread that can run does run, and the maintenance
\* thread gets the lock if it is free again and again
SpecJanitor ==
    /\ InitJanitor
    /\ [][NextJanitor]_vars
    /\ WF_vars(Elapse(MaintenanceInterval))
    /\ WF_vars(ClStart \/ ClScan \/ ClDelete \/ ClRelease)
    /\ SF_vars(ClAcquire)
    /\ \A t \in RaceWorkers : WF_vars(ReadStep(t) \/ SenderStep(t))

NextResize ==
    \/ EditStore
    \/ \E t \in RaceWorkers, u \in RaceUsers : ProcessMessage(t, u)
    \/ \E t \in Managers, f \in BOOLEAN : ManagementRequest(t, f)
    \/ \E t \in Managers : ManagementResponse(t)
    \/ \E t \in Loaders : ReadStep(t) \/ RecoverStep(t)
    \/ \E t \in Workers : SenderStep(t) \/ GlobalStep(t)

SpecResize == InitResize /\ [][NextResize]_vars

NextTruncate ==
    \/ \E u \in DispatchUsers : WhReceive("text", u)
    \/ HookStep
    \/ \E t \in Workers : SendStep(t)
    \/ \E t \in Workers : MessageStep(t)
    \/ \E t \in Workers : ReadStep(t)
    \/ \E t \in Workers : SenderStep(t)

SpecTruncate == InitTruncate /\ [][NextTruncate]_vars

\* ------------------------------------------------------------------ claims
CursorInFlight(u) ==
    \E t \in Workers : user_id[t] = u /\ pc[t] \in {"gn_incr_load", "gn_incr_store"}

Cursor(u) == IF u \in DOMAIN user_states THEN user_states[u].reply_index ELSE 0

\* C1: the calls of get_next_reply for one sender, however their threads
\* interleave, consume the cursor values 0, 1, ..., N-1, each exactly once, and
\* once no call is between its selection and its increment the sender's cursor
\* equals the number N of values consumed.
C1_DistinctSequentialCursors ==
    \A u \in Users :
        /\ \A i \in 1..Len(consumed[u]) : consumed[u][i] = i - 1
        /\ ~CursorInFlight(u) => Cursor(u) = Len(consumed[u])

C1_Witness ==
    /\ user_id["w1"] = "u1" /\ pc["w1"] = "gn_touch"
    /\ user_id["w2"] = "u1" /\ pc["w2"] = "gn_lock"
    /\ consumed["u1"] = <<0, 1, 2>>
    /\ Cursor("u1") = 3

\* C2: over a fixed pool of n >= 1 templates the i-th reply to one sender
\* (i = 0, 1, ...) is templates[i mod n], so the rotation wraps to templates[0]
\* after n replies.
C2_RotationOrder ==
    \A u \in Users : \A i \in 1..Len(returned[u]) :
        /\ replies_cache # <<>>
        /\ returned[u][i] = replies_cache[((i - 1) % Len(replies_cache)) + 1]

C2_Witness ==
    /\ store = Present(PoolABC)
    /\ replies_cache = << <<"A">>, <<"B", " ", "b">>, <<"C">> >>
    /\ returned["u1"] = << <<"A">>, <<"B", " ", "b">>, <<"C">>, <<"A">> >>

InEntryStep(t) == pc[t] \in {"gn_select", "gn_incr_load", "gn_incr_store", "gn_touch"}

ThreadSteps ==
    \/ \E t \in Workers : ReadStep(t) \/ SenderStep(t)
    \/ ClAcquire \/ ClScan \/ ClDelete \/ ClRelease

\* C3: however the sweep interleaves with get_next_reply calls, no thread
\* faults, a thread that has started a call or a sweep can always be followed
\* by a step (no deadlock), no sweep scans or deletes while a call is between
\* its lookup and its refresh of an entry, which is therefore present, and a
\* swept sender starts again from cursor 0.
C3_SweepSafe ==
    /\ \A t \in Threads : pc[t] # "fault"
    /\ (\E t \in Threads : pc[t] # "idle") => ENABLED ThreadSteps
    /\ \A t \in Workers : InEntryStep(t) =>
          /\ user_id[t] \in DOMAIN user_states
          /\ pc[Janitor] \notin {"cl_scan", "cl_delete"}
    /\ \A u \in swept :
          /\ u \notin DOMAIN user_states => consumed[u] = <<>>
          /\ \A i \in 1..Len(consumed[u]) : consumed[u][i] = i - 1
          /\ ~CursorInFlight(u) => Cursor(u) = Len(consumed[u])

C3_Witness ==
    /\ "u1" \in swept
    /\ user_id["w1"] = "u1" /\ pc["w1"] = "gn_touch"
    /\ pc[Janitor] = "idle"
    /\ consumed["u1"] = <<0>>
    /\ Cursor("u1") = 1

Kept(before, cur) ==
    {u \in DOMAIN before : ~(cur - before[u].last_active > 3600)}

\* C4: when a sweep has finished its deletions the table holds exactly the
\* entries it found with now - last_active <= 3600, each unchanged, now being
\* the time the sweep read when it started; so an entry last active at T
\* survives a sweep at T + 3599 and is gone after a sweep at T + 3601.
C4_SweepExact ==
    (pc[Janitor] = "cl_delete" /\ inactive_users = {}) =>
        user_states = [u \in Kept(cl_before, cl_time) |-> cl_before[u]]

C4_Witness ==
    /\ pc[Janitor] = "cl_delete" /\ inactive_users = {}
    /\ DOMAIN cl_before = {"u1", "u2"}
    /\ cl_time = cl_before["u1"].last_active + InactiveThreshold + 1
    /\ cl_time = cl_before["u2"].last_active + InactiveThreshold - 1
    /\ DOMAIN user_states = {"u2"}

Left(t, at) == pc[t] = at /\ pc'[t] # at

\* C5 as claimed: once a load has returned, the cached template list is not
\* empty.
C5_CacheNeverEmptyAfterLoad ==
    (\E t \in Managers : pc[t] = "respond") => replies_cache # <<>>

\* C5 as amended: a reload that finds reply.txt missing goes on to seed it and,
\* whether or not the write succeeds, stores the non-empty default set in the
\* cache; the cache is left or made empty only by a reload that read a file
\* with no non-blank line, which stores that empty list and writes nothing.
C5_EmptyOnlyFromBlankFile ==
    [][\A t \in Loaders :
          /\ (Left(t, "lr_read") /\ ~store.exists) => pc'[t] = "cd_open"
          /\ (Left(t, "cd_written") \/ Left(t, "cd_failed")) =>
                (replies_cache' = DefaultReplies /\ replies_cache' # <<>>)
          /\ (Left(t, "lr_assign") /\ file_lines[t] = <<>>) =>
                (replies_cache' = <<>> /\ store' = store)
          /\ (replies_cache' = <<>> /\ replies_cache # <<>>) =>
                \E r \in Loaders : Left(r, "lr_assign") /\ file_lines[r] = <<>>
      ]_vars

C5_Witness ==
    /\ pc["m1"] = "respond"
    /\ load_path["m1"] = "read"
    /\ store = Present(PoolBlank)
    /\ replies_cache = <<>>

\* C6: every get_next_reply call returns a non-empty string and none faults,
\* whatever the state of reply.txt: missing with the seed write failing,
\* unreadable, without a non-blank line, or changed under a concurrent reload.
C6_ReplyNeverEmpty ==
    \A t \in Workers :
        /\ pc[t] # "fault"
        /\ pc[t] = "gn_return" => (reply[t] # <<>> /\ Strip(reply[t]) = reply[t])

C6_Witness ==
    /\ pc["w1"] = "gn_return"
    /\ load_path["w1"] = "seed_failed"
    /\ ~store.exists
    /\ reply["w1"] = DefaultReplies[1]

Reloading(t) ==
    pc[t] \in {"lr_read", "lr_assign", "lr_stamp", "lr_error",
               "cd_open", "cd_write", "cd_written", "cd_failed"}

\* C7 as claimed: at most one caller is reloading reply.txt at any time.
C7_OneReloadAtATime ==
    Cardinality({t \in Loaders : Reloading(t)}) <= 1

\* C8: every value stored in the cache is a whole list, either the complete
\* list of stripped non-blank lines one reload read from reply.txt, the
\* default set or the one-string fallback, and every list a caller gets from
\* load_replies is the cache as it stood at that moment.
C8_WholeLists ==
    [][/\ \A t \in Loaders :
             (Left(t, "lr_read") /\ pc'[t] = "lr_assign") =>
                 file_lines'[t] = ReadLines(store.lines)
       /\ replies_cache' # replies_cache =>
             replies_cache' \in {DefaultReplies, ErrorReplies}
                 \cup {file_lines[t] : t \in {r \in Loaders : pc[r] = "lr_assign"}}
       /\ \A t \in Loaders :
             Left(t, "lr_return") => replies'[t] = replies_cache
      ]_vars

C8_Witness ==
    /\ pc["m1"] = "lr_assign"
    /\ file_lines["m1"] # replies_cache
    /\ pc["w1"] = "gn_empty"
    /\ replies["w1"] = replies_cache
    /\ replies_cache = << <<"A">>, <<"B", " ", "b">>, <<"C">> >>

\* C9: load_replies reads reply.txt if and only if force_reload is set or the
\* time it sampled is more than 30 seconds after last_reply_reload; otherwise
\* it goes straight to its return, leaving the cache as it is and returning
\* it, whatever reply.txt holds by then.
C9_ReloadIffForcedOrStale ==
    [][\A t \in Loaders :
          /\ Left(t, "lr_check") =>
                /\ pc'[t] = "lr_read" <=>
                      (force_reload[t] \/ current_time[t] - last_reply_reload > 30)
                /\ pc'[t] # "lr_read" =>
                      (pc'[t] = "lr_return" /\ replies_cache' = replies_cache)
          /\ (Left(t, "lr_return") /\ load_path[t] = "cached") =>
                replies'[t] = replies_cache
      ]_vars

C9_Witness ==
    /\ pc["m1"] = "respond"
    /\ load_path["m1"] = "cached"
    /\ ~force_reload["m1"]
    /\ now - last_reply_reload = StalenessWindow
    /\ store.exists /\ readable
    /\ replies["m1"] # ReadLines(store.lines)
    /\ replies["m1"] = replies_cache

\* C10 as claimed: a load whose reload could not read reply.txt, missing or
\* unreadable, leaves the default set of at least 10 strings in the cache.
C10_DefaultsOnAnyReadFailure ==
    \A t \in Managers :
        (pc[t] = "lr_return" /\ load_path[t] \in {"seeded", "seed_failed", "error"}) =>
            (replies_cache = DefaultReplies /\ Len(replies_cache) >= 10)

\* C10 as amended: a reload that finds reply.txt missing tries to write the
\* default set and, the write failing or not, stores the 10 defaults in the
\* cache; a reload that finds reply.txt present but unreadable writes nothing
\* and stores the one-string fallback list; no failure of the read or of the
\* write reaches the caller.
C10_ReadFailureRecovered ==
    [][\A t \in Loaders :
          /\ pc'[t] # "fault"
          /\ Left(t, "lr_read") =>
                /\ ~store.exists => pc'[t] = "cd_open"
                /\ (store.exists /\ ~readable) => pc'[t] = "lr_error"
          /\ Left(t, "lr_error") =>
                (replies_cache' = ErrorReplies /\ store' = store
                    /\ Len(replies_cache') = 1 /\ pc'[t] = "lr_return")
          /\ Left(t, "cd_open") =>
                /\ pc'[t] = IF writable THEN "cd_write" ELSE "cd_failed"
                /\ writable => store' = Present(<<>>)
          /\ Left(t, "cd_write") =>
                /\ pc'[t] = IF writable /\ ~disk_full THEN "cd_written" ELSE "cd_failed"
                /\ (writable /\ ~disk_full) => ReadLines(store'.lines) = DefaultReplies
          /\ (Left(t, "cd_written") \/ Left(t, "cd_failed")) =>
                (replies_cache' = DefaultReplies /\ Len(replies_cache') = 10
                    /\ pc'[t] = "lr_return")
      ]_vars

C10_Witness ==
    /\ pc["m1"] = "respond"
    /\ load_path["m1"] = "seed_failed"
    /\ ~store.exists /\ ~writable
    /\ replies["m1"] = DefaultReplies

\* a send_message call of thread t has returned to its caller
SendDone(t) ==
    IF t = Handler
    THEN pc[t] = "wh_respond" /\ wh_event.kind \in SendingKinds
    ELSE pc[t] \in {"pm_typing_off", "pm_log"}

WellFormed == wh_event.kind \notin {"none", "empty", "malformed"}

\* C11: without PAGE_ACCESS_TOKEN no request ever leaves the process, every
\* send_message call returns False without reaching its requests.post, no
\* thread faults on it, and the webhook handler answers 200 (not 500) to every
\* well-formed event, those it answered with a send of its own included.
C11_NoTokenFailsClosed ==
    ~token =>
        /\ outbox = <<>>
        /\ \A t \in Senders :
              /\ pc[t] \notin {"sm_truncate", "sm_post"}
              /\ attempts[t] = 0
              /\ success[t] # "True"
              /\ SendDone(t) => success[t] = "False"
        /\ \A t \in Workers : pc[t] # "fault"
        /\ WellFormed =>
              /\ pc[Handler] # "fault"
              /\ pc[Handler] = "idle" => wh_status = "200"

C11_Witness ==
    /\ ~token
    /\ pc["w1"] = "pm_log" /\ success["w1"] = "False"
    /\ pc[Handler] = "idle"
    /\ wh_event.kind = "attachment"
    /\ wh_status = "200"
    /\ outbox = <<>>

\* C12: with PAGE_ACCESS_TOKEN set, a send_message call that has returned has
\* made exactly one request (none before its post, no second one), returned
\* True exactly when the response had status 200 and False on another status,
\* a timeout, a transport error or any other exception, and no thread faulted.
C12_OneAttemptTrueIffSuccess ==
    token =>
        /\ \A t \in Senders :
              /\ pc[t] \in {"sm_check", "sm_truncate", "sm_post"} => attempts[t] = 0
              /\ SendDone(t) =>
                    /\ attempts[t] = 1
                    /\ sm_outcome[t] \in Outcomes
                    /\ success[t] = IF sm_outcome[t] = "200" THEN "True" ELSE "False"
        /\ \A t \in Workers : pc[t] # "fault"
        /\ WellFormed => pc[Handler] # "fault"

C12_Witness ==
    /\ token
    /\ pc["w1"] = "pm_typing_off"
    /\ sm_outcome["w1"] = "timeout" /\ success["w1"] = "False" /\ attempts["w1"] = 1
    /\ pc[Handler] = "wh_respond"
    /\ sm_outcome[Handler] = "200" /\ success[Handler] = "True" /\ attempts[Handler] = 1

Min(a, b) == IF a < b THEN a ELSE b

Sent(t, body) ==
    \E i \in 1..Len(outbox) :
        outbox[i].by = t /\ outbox[i].kind = "message" /\ outbox[i].body = body

\* C13: the body send_message posts for a text of L characters has
\* min(L, 2000) characters: the text itself when L <= 2000, and its first 1997
\* characters followed by "..." when L > 2000.
C13_BodyTruncated ==
    \A t \in Workers :
        SendDone(t) =>
            /\ Sent(t, sm_text[t])
            /\ Len(sm_text[t]) = Min(Len(reply[t]), 2000)
            /\ Len(reply[t]) <= 2000 => sm_text[t] = reply[t]
            /\ Len(reply[t]) > 2000 =>
                  /\ SubSeq(sm_text[t], 1, 1997) = SubSeq(reply[t], 1, 1997)
                  /\ SubSeq(sm_text[t], 1998, 2000) = <<".", ".", ".">>

C13_Witness ==
    /\ pc["w1"] = "pm_typing_off"
    /\ Len(reply["w1"]) = 2001
    /\ Len(sm_text["w1"]) = 2000
    /\ sm_text["w1"][1997] = reply["w1"][1997]
    /\ sm_text["w1"][1998] = "."
    /\ Sent("w1", sm_text["w1"])

StepOrder == <<"typing_on", "resolve", "send", "typing_off">>

StepsDone(t) ==
    CASE pc[t] = "pm_typing_on" -> 0
      [] pc[t] = "pm_send" -> 2
      [] pc[t] \in {"sm_check", "sm_truncate", "sm_post", "pm_typing_off"} -> 3
      [] pc[t] = "pm_log" -> 4
      [] OTHER -> 1

MessageSteps ==
    \E t \in Workers : MessageStep(t) \/ SendStep(t) \/ ReadStep(t) \/ SenderStep(t)

\* C14: a process_message thread does, in this order and each once, typing_on,
\* the get_next_reply call, one send_message call with the reply that call
\* returned and typing_off; it never faults and can always go on to its end,
\* whether or not the token is set and whatever the send returned.
C14_StepsInOrderOnce ==
    /\ \A t \in Workers :
          /\ pc[t] # "fault"
          /\ mode[t] = "message" =>
                /\ pm_steps[t] = SubSeq(StepOrder, 1, StepsDone(t))
                /\ StepsDone(t) >= 3 => sm_text[t] = reply[t]
                /\ pc[t] = "pm_log" => attempts[t] = (IF token THEN 1 ELSE 0)
          /\ pc[t] = "idle" => (mode[t] = "call" /\ pm_steps[t] = <<>>)
    /\ (\E t \in Workers : pc[t] # "idle") => ENABLED MessageSteps

C14_Witness ==
    /\ pc["w1"] = "pm_log"
    /\ pm_steps["w1"] = <<"typing_on", "resolve", "send", "typing_off">>
    /\ sm_outcome["w1"] = "other" /\ success["w1"] = "False"
    /\ reply["w1"] = <<"A">>
    /\ Cursor("u1") = 1

MessagesTo(u) ==
    {i \in 1..Len(outbox) :
        outbox[i].kind = "message" /\ outbox[i].to = u /\ outbox[i].cursor # NoCursor}

\* C18: the get_next_reply calls of concurrent process_message threads for one
\* sender take the cursors 0, 1, ... one after the other, no two sends carry
\* the reply of the same cursor and each carries the reply its cursor selects;
\* nothing orders the sends themselves: a state in which the reply of cursor 1
\* left before the reply of cursor 0 is reachable.
C18_CursorsAtomicSendsUnordered ==
    \A u \in DispatchUsers :
        /\ \A i \in 1..Len(consumed[u]) : consumed[u][i] = i - 1
        /\ \A i \in MessagesTo(u) :
              /\ outbox[i].cursor \in 0..(Len(consumed[u]) - 1)
              /\ outbox[i].body = ReplyAt(ReadLines(PoolAB), outbox[i].cursor)
              /\ \A j \in MessagesTo(u) : outbox[j].cursor = outbox[i].cursor => j = i

C18_Witness ==
    \E i, j \in MessagesTo("u1") :
        /\ i < j
        /\ outbox[i].cursor = 1 /\ outbox[i].body = <<"B", " ", "b">>
        /\ outbox[j].cursor = 0 /\ outbox[j].body = <<"A">>
        /\ outbox[i].by # outbox[j].by

\* C15 as claimed: of two forced loads one after the other, with no change to
\* reply.txt from outside in between, the second returns the list the first
\* returned.
C15_ForcedReloadIdempotent ==
    \A t \in Managers :
        (pc[t] = "respond" /\ force_reload[t] /\ last_forced.valid) =>
            replies[t] = last_forced.list

Busy(u) == \E t \in Workers : user_id[t] = u

\* C16: the maintenance thread starts a sweep again and again without end, and
\* an entry in the table is eventually deleted unless its sender has a further
\* message handled before, whatever the other senders do meanwhile.
C16_JanitorSweepsForever ==
    /\ []<>(pc[Janitor] = "cl_scan")
    /\ \A u \in Users :
          (u \in DOMAIN user_states) ~> (u \notin DOMAIN user_states \/ Busy(u))

C16_Witness ==
    /\ pc[Janitor] = "cl_delete" /\ inactive_users = {}
    /\ swept = {"u1"}
    /\ DOMAIN cl_before = {"u1", "u2"}
    /\ cl_before["u1"].last_active = now - Horizon
    /\ cl_before["u2"].last_active = cl_time
    /\ DOMAIN user_states = {"u2"}

InRange(list, index) == (index % Len(list)) + 1 \in 1..Len(list)

\* C17: no cursor is ever negative, and whatever changed the size of the pool
\* since the sender's last call (a reload of its own call, stale or not, or an
\* unlocked reload of a management endpoint, before or during the call) the
\* call selects from the list its own load returned, which is not empty, at
\* the cursor modulo that list's length, an index inside the list; no call
\* faults.
C17_IndexInBounds ==
    [][/\ reply_index' >= 0
       /\ \A u \in DOMAIN user_states' : user_states'[u].reply_index >= 0
       /\ \A t \in Workers :
             /\ pc'[t] # "fault"
             /\ Left(t, "gn_select") =>
                   /\ replies[t] # <<>>
                   /\ user_id[t] \in DOMAIN user_states
                   /\ InRange(replies[t], user_states[user_id[t]].reply_index)
                   /\ reply'[t] = replies[t][(user_states[user_id[t]].reply_index
                                                  % Len(replies[t])) + 1]
             /\ Left(t, "gn_global") =>
                   /\ replies[t] # <<>>
                   /\ InRange(replies[t], reply_index)
                   /\ reply'[t] = replies[t][(reply_index % Len(replies[t])) + 1]
      ]_vars

C17_Witness ==
    /\ pc["w1"] = "gn_incr_load"
    /\ user_id["w1"] = "u1"
    /\ Cursor("u1") = 1
    /\ replies["w1"] = << <<"A">> >>
    /\ returned["u1"] = << <<"A">>, <<"A">> >>
    /\ store = Present(PoolA)

InLoad(t) ==
    pc[t] \in {"gn_lock", "lr_time", "lr_check", "lr_read", "lr_assign", "lr_stamp",
               "lr_error", "cd_open", "cd_write", "cd_written", "cd_failed", "lr_return"}

C20_RereadsAfterFailedLoad ==
    [][\A t \in Managers :
          (Left(t, "lr_check") /\ ~force_reload[t] /\ replies_cache = ErrorReplies) =>
              pc'[t] = "lr_read"
      ]_vars

\* C20 as amended: last_reply_reload is set only by a load that read reply.txt,
\* to the time that load sampled; the default-seeding path and the read-error
\* path leave it as it was.  The next load(force=False) therefore reads
\* reply.txt exactly when its own time is more than 30 seconds after the last
\* successful read, and otherwise returns the defaults or the fallback list
\* from the cache without reading.
C20_OnlyReadStamps ==
    [][/\ last_reply_reload' # last_reply_reload =>
             \E t \in Loaders : Left(t, "lr_stamp") /\ last_reply_reload' = current_time[t]
       /\ \A t \in Loaders :
             /\ (Left(t, "cd_written") \/ Left(t, "cd_failed") \/ Left(t, "lr_error")) =>
                   (last_reply_reload' = last_reply_reload /\ pc'[t] = "lr_return")
             /\ (Left(t, "lr_check") /\ ~force_reload[t]
                    /\ replies_cache \in {DefaultReplies, ErrorReplies}) =>
                   /\ pc'[t] = "lr_read" <=> current_time[t] - last_reply_reload > 30
                   /\ pc'[t] # "lr_read" => load_path'[t] = "cached"
      ]_vars

C20_Witness ==
    /\ pc["m1"] = "respond"
    /\ ~force_reload["m1"]
    /\ load_path["m1"] = "cached"
    /\ replies["m1"] = ErrorReplies
    /\ store.exists /\ ~readable
    /\ now - last_reply_reload = 1

====
